---- MODULE Spec2Model ----
(***************************************************************************)
(* diesel_pg_hstore: the Hstore map type, its binary wire codec            *)
(* (FromSql::from_sql / ToSql::to_sql), and its inline SQL literal         *)
(* renderer (QueryFragment::walk_ast), modelled from src/src/lib.rs.       *)
(*                                                                         *)
(* A byte is a number in 0..255, a byte buffer or a string is a sequence   *)
(* of bytes (a Rust String is its UTF-8 bytes), and the Hstore's HashMap   *)
(* is a function from its keys to their values.                            *)
(***************************************************************************)
EXTENDS Integers, Sequences, FiniteSets, TLC

\* ------------------------------------------------------------------------
\* Bounds and input alphabets
\* ------------------------------------------------------------------------

\* The largest number of entries of a map, and of well-formed entries that
\* lead a wire buffer.
MaxEntries == 2

\* The texts used as keys and values: "", "a", "b" and the two-byte "é".
Texts == {<<>>, <<97>>, <<98>>, <<195, 169>>}

\* Byte strings that are not UTF-8: a byte that never occurs in UTF-8, a lead
\* byte with no continuation, a lone continuation byte, a lead byte followed
\* by a non-continuation, and a text followed by an invalid byte.
NonTexts == {<<255>>, <<195>>, <<169>>, <<195, 97>>, <<97, 255>>}

\* Stray bytes that follow the entries of a wire buffer: one byte, or four
\* bytes that read as a length.
Strays == {<<0>>, <<255>>, <<0, 0, 0, 0>>}

\* Negative lengths: -1 (the null value length PostgreSQL sends) and i32::MIN.
NegLens == {-1, (-2147483647) - 1}

\* ------------------------------------------------------------------------
\* Results of the fallible operations
\* ------------------------------------------------------------------------

\* The messages of the errors the decoder returns (Box<dyn Error>).
InvalidEntryCount == "Invalid entry count for hstore"
InvalidBufferSize == "invalid buffer size"
InvalidKeyLength == "invalid key length"
\* std::str::Utf8Error, returned by str::from_utf8.
InvalidUtf8 == "Utf8Error"
\* std::io::ErrorKind::UnexpectedEof, returned by read_i32 on a short slice.
UnexpectedEof == "UnexpectedEof"

\* Option<String>.
None == [some |-> FALSE, v |-> <<>>]
Some(v) == [some |-> TRUE, v |-> v]

\* HashMap::new().
EmptyMap == [k \in {} |-> <<>>]

\* ------------------------------------------------------------------------
\* byteorder and std::str
\* ------------------------------------------------------------------------

\* i32::to_be_bytes: the four bytes of n in two's complement, high byte first.
to_be_bytes(n) ==
  LET low == IF n >= 0 THEN n ELSE (n + 2147483647) + 1
      top == IF n >= 0 THEN 0 ELSE 128
  IN  << top + (low \div 16777216), (low \div 65536) % 256,
         (low \div 256) % 256, low % 256 >>

\* i32::from_be_bytes.
from_be_bytes(b) ==
  LET low == ((b[1] % 128) * 16777216) + (b[2] * 65536) + (b[3] * 256) + b[4]
  IN  IF b[1] >= 128 THEN (low - 2147483647) - 1 ELSE low

\* The rest of a buffer after its first n bytes.
Drop(buf, n) == SubSeq(buf, n + 1, Len(buf))

\* ReadBytesExt::read_i32::<BigEndian> on a &[u8]: the value and the advanced
\* slice, or UnexpectedEof when fewer than four bytes remain; read_exact of a
\* slice consumes all of it before it returns that error.
read_i32(buf) ==
  IF Len(buf) < 4
  THEN [ok |-> FALSE, val |-> 0, rest |-> <<>>]
  ELSE [ok |-> TRUE, val |-> from_be_bytes(SubSeq(buf, 1, 4)), rest |-> Drop(buf, 4)]

\* A UTF-8 continuation byte.
IsCont(b) == b >= 128 /\ b <= 191

\* The length of the well-formed UTF-8 sequence that starts at s[i], or 0
\* when there is none (core::str::validations::run_utf8_validation).
Utf8SeqLen(s, i) ==
  LET b == s[i]
      n == Len(s) - i
      c1 == IF n >= 1 THEN s[i + 1] ELSE 0
      c2 == IF n >= 2 THEN s[i + 2] ELSE 0
      c3 == IF n >= 3 THEN s[i + 3] ELSE 0
  IN  IF b < 128 THEN 1
      ELSE IF b >= 194 /\ b <= 223
        THEN (IF n >= 1 /\ IsCont(c1) THEN 2 ELSE 0)
      ELSE IF b >= 224 /\ b <= 239
        THEN (IF /\ n >= 2
                 /\ IsCont(c2)
                 /\ \/ b = 224 /\ c1 >= 160 /\ c1 <= 191
                    \/ b >= 225 /\ b <= 236 /\ IsCont(c1)
                    \/ b = 237 /\ c1 >= 128 /\ c1 <= 159
                    \/ b >= 238 /\ IsCont(c1)
              THEN 3 ELSE 0)
      ELSE IF b >= 240 /\ b <= 244
        THEN (IF /\ n >= 3
                 /\ IsCont(c2)
                 /\ IsCont(c3)
                 /\ \/ b = 240 /\ c1 >= 144 /\ c1 <= 191
                    \/ b >= 241 /\ b <= 243 /\ IsCont(c1)
                    \/ b = 244 /\ c1 >= 128 /\ c1 <= 143
              THEN 4 ELSE 0)
      ELSE 0

RECURSIVE Utf8ValidFrom(_, _)
Utf8ValidFrom(s, i) ==
  IF i > Len(s) THEN TRUE
  ELSE LET n == Utf8SeqLen(s, i)
       IN  IF n = 0 THEN FALSE ELSE Utf8ValidFrom(s, i + n)

\* from_utf8 that checks nothing (str::from_utf8_unchecked).
from_utf8_unchecked(s) == [ok |-> TRUE, str |-> s]

\* str::from_utf8: the same bytes as a &str, or a Utf8Error.
from_utf8(s) == [ok |-> Utf8ValidFrom(s, 1), str |-> s]

\* ------------------------------------------------------------------------
\* Binary decoder: HstoreIterator and FromSql::from_sql
\* ------------------------------------------------------------------------

\* The HstoreIterator built by from_sql.
HstoreIterator(remaining, buf) == [made |-> TRUE, remaining |-> remaining, buf |-> buf]

\* No iterator: from_sql returned before building one.
NoIterator == [made |-> FALSE, remaining |-> 0, buf |-> <<>>]

\* What a call on the iterator yields, with the iterator as the call left it:
\* Ok(Some((key, value))), Ok(None), Err(err), or a panic.
Yield(tag, key, value, err, self) ==
  [tag |-> tag, key |-> key, value |-> value, err |-> err, self |-> self]

\* HstoreIterator::consume after the key length: the key, the value length
\* and the value of the entry. at_key is the iterator after the key length.
\* slice::split_at panics when the value length exceeds the bytes that remain.
consume_value(at_key, key_len) ==
  LET key       == from_utf8(SubSeq(at_key.buf, 1, key_len))
      value_len == read_i32(Drop(at_key.buf, key_len))
      at_value  == [at_key EXCEPT !.buf = value_len.rest]
  IN
  IF ~key.ok THEN Yield("Err", <<>>, None, InvalidUtf8, at_key)
  ELSE IF ~value_len.ok THEN Yield("Err", key.str, None, UnexpectedEof, at_value)
  ELSE IF value_len.val < 0 THEN Yield("Some", key.str, None, "", at_value)
  ELSE IF value_len.val > Len(at_value.buf) THEN Yield("Panic", key.str, None, "", at_value)
  ELSE
    LET value == from_utf8(SubSeq(at_value.buf, 1, value_len.val))
        after == [at_value EXCEPT !.buf = Drop(at_value.buf, value_len.val)]
    IN
    IF ~value.ok THEN Yield("Err", key.str, None, InvalidUtf8, at_value)
    ELSE Yield("Some", key.str, Some(value.str), "", after)

\* consume_entry without the check of the key length: a negative length cast
\* to usize exceeds every buffer and split_at panics.
consume_entry_unchecked_key_len(self) ==
  LET counted == [self EXCEPT !.remaining = @ - 1]
      key_len == read_i32(counted.buf)
      at_key  == [counted EXCEPT !.buf = key_len.rest]
  IN
  IF ~key_len.ok THEN Yield("Err", <<>>, None, UnexpectedEof, at_key)
  ELSE IF key_len.val < 0 \/ key_len.val > Len(at_key.buf)
    THEN Yield("Panic", <<>>, None, "", at_key)
  ELSE consume_value(at_key, key_len.val)

\* HstoreIterator::consume when entries remain: count the entry, read and
\* check its key length, then the rest of the entry. slice::split_at panics
\* when the key length exceeds the bytes that remain.
consume_entry(self) ==
  LET counted == [self EXCEPT !.remaining = @ - 1]
      key_len == read_i32(counted.buf)
      at_key  == [counted EXCEPT !.buf = key_len.rest]
  IN
  IF ~key_len.ok THEN Yield("Err", <<>>, None, UnexpectedEof, at_key)
  ELSE IF key_len.val < 0 THEN Yield("Err", <<>>, None, InvalidKeyLength, at_key)
  ELSE IF key_len.val > Len(at_key.buf) THEN Yield("Panic", <<>>, None, "", at_key)
  ELSE consume_value(at_key, key_len.val)

\* consume without the check that the buffer is exhausted.
consume_unchecked_size(self) ==
  IF self.remaining = 0
  THEN Yield("None", <<>>, None, "", self)
  ELSE consume_entry(self)

\* HstoreIterator::consume: the next wire entry, its value None when the value
\* length is negative; after the last entry the buffer must be empty.
consume(self) ==
  IF self.remaining = 0
  THEN IF self.buf # <<>>
       THEN Yield("Err", <<>>, None, InvalidBufferSize, self)
       ELSE Yield("None", <<>>, None, "", self)
  ELSE consume_entry(self)

\* next that does not skip the entries whose value is None.
next_keep_null(self) == consume(self)

\* FallibleIterator::next: the next entry that has a value; entries whose
\* value is None are skipped.
RECURSIVE next(_)
next(self) ==
  LET res == consume(self)
  IN  IF res.tag = "Some" /\ ~res.value.some THEN next(res.self) ELSE res

\* An insert that keeps the value of a key already present.
map_insert_keep_first(map, k, v) ==
  [x \in (DOMAIN map) \cup {k} |-> IF x \in DOMAIN map THEN map[x] ELSE v]

\* HashMap::insert(k, v): the map with k bound to v.
map_insert(map, k, v) ==
  [x \in (DOMAIN map) \cup {k} |-> IF x = k THEN v ELSE map[x]]

\* What from_sql returns, with the iterator as it was left: Ok(Hstore(map)),
\* Err(err), or a panic.
Decoded(tag, map, err, entries) ==
  [op |-> "from_sql", tag |-> tag, val |-> map, err |-> err, entries |-> entries]

\* A loop of from_sql in which an entry with a null value removes its key.
RECURSIVE from_sql_loop_null_removes(_, _)
from_sql_loop_null_removes(entries, map) ==
  LET res == consume(entries)
  IN  IF res.tag = "Some"
        THEN from_sql_loop_null_removes(
               res.self,
               IF res.value.some THEN map_insert(map, res.key, res.value.v)
               ELSE [x \in (DOMAIN map) \ {res.key} |-> map[x]])
      ELSE IF res.tag = "None" THEN Decoded("Ok", map, "", res.self)
      ELSE Decoded(res.tag, EmptyMap, res.err, res.self)

\* The loop of from_sql: insert every entry the iterator yields.
RECURSIVE from_sql_loop(_, _)
from_sql_loop(entries, map) ==
  LET res == next(entries)
  IN  IF res.tag = "Some"
        THEN from_sql_loop(res.self, map_insert(map, res.key, res.value.v))
      ELSE IF res.tag = "None" THEN Decoded("Ok", map, "", res.self)
      ELSE Decoded(res.tag, EmptyMap, res.err, res.self)

\* from_sql with the count checked against -1 instead of 0.
from_sql_count_off_by_one(bytes) ==
  LET count == read_i32(bytes)
  IN  IF ~count.ok THEN Decoded("Err", EmptyMap, UnexpectedEof, NoIterator)
      ELSE IF count.val < -1 THEN Decoded("Err", EmptyMap, InvalidEntryCount, NoIterator)
      ELSE from_sql_loop(HstoreIterator(count.val, count.rest), EmptyMap)

\* FromSql::from_sql.
from_sql(bytes) ==
  LET count == read_i32(bytes)
  IN  IF ~count.ok THEN Decoded("Err", EmptyMap, UnexpectedEof, NoIterator)
      ELSE IF count.val < 0 THEN Decoded("Err", EmptyMap, InvalidEntryCount, NoIterator)
      ELSE from_sql_loop(HstoreIterator(count.val, count.rest), EmptyMap)

\* ------------------------------------------------------------------------
\* Binary encoder: ToSql::to_sql
\* ------------------------------------------------------------------------

\* The orders in which a HashMap may iterate the keys S: every arrangement.
Orders(S) ==
  {o \in [1..Cardinality(S) -> S] : \A i, j \in 1..Cardinality(S) : i # j => o[i] # o[j]}

\* write_pascal_string with the length in characters instead of bytes.
write_pascal_string_chars(s, buf) ==
  buf \o to_be_bytes(Cardinality({i \in 1..Len(s) : ~IsCont(s[i])})) \o s

\* write_pascal_string: the length of s as a big-endian i32, then its bytes.
write_pascal_string(s, buf) == buf \o to_be_bytes(Len(s)) \o s

\* The loop of to_sql over the entries from the i-th of the iteration order:
\* the count and the buffer after it.
RECURSIVE to_sql_loop(_, _, _, _, _)
to_sql_loop(self, order, i, count, buf) ==
  IF i > Len(order) THEN [count |-> count, buf |-> buf]
  ELSE to_sql_loop(self, order, i + 1, count + 1,
                   write_pascal_string(self[order[i]],
                                       write_pascal_string(order[i], buf)))

\* to_sql that leaves the four reserved bytes as they are.
to_sql_no_backpatch(self, order) == to_sql_loop(self, order, 1, 0, <<0, 0, 0, 0>>).buf

\* ToSql::to_sql: the bytes written to out, for a map iterated in `order`.
to_sql(self, order) ==
  LET done == to_sql_loop(self, order, 1, 0, <<0, 0, 0, 0>>)
  IN  to_be_bytes(done.count) \o Drop(done.buf, 4)

\* ------------------------------------------------------------------------
\* Inline literal renderer: QueryFragment::walk_ast
\* ------------------------------------------------------------------------

\* The texts pushed by walk_ast: "'", "=>", "," and "'::hstore".
Quote == <<39>>
Arrow == <<61, 62>>
Comma == <<44>>
Cast == <<39, 58, 58, 104, 115, 116, 111, 114, 101>>

\* An entry with its key and value in double quotes.
format_entry_quoted(k, v) == <<34>> \o k \o <<34>> \o Arrow \o <<34>> \o v \o <<34>>

\* format!("{}=>{}", k, v).
format_entry(k, v) == k \o Arrow \o v

\* The reduce of walk_ast over the formatted entries from the i-th on.
RECURSIVE reduce_entries(_, _, _, _)
reduce_entries(self, order, i, acc) ==
  IF i > Len(order) THEN acc
  ELSE reduce_entries(self, order, i + 1,
                      acc \o Comma \o format_entry(order[i], self[order[i]]))

\* walk_ast with the reduce defaulted (unwrap_or_default): a map with no
\* entries renders as ''::hstore.
walk_ast_empty_literal(self, order) ==
  [tag |-> "Ok",
   sql |-> Quote
           \o (IF Len(order) = 0 THEN <<>>
               ELSE reduce_entries(self, order, 2, format_entry(order[1], self[order[1]])))
           \o Cast]

\* QueryFragment::walk_ast: the SQL pushed to the pass, for a map iterated in
\* `order`; reduce yields None for a map with no entries and unwrap panics.
walk_ast(self, order) ==
  IF Len(order) = 0
  THEN [tag |-> "Panic", sql |-> <<>>]
  ELSE [tag |-> "Ok",
        sql |-> Quote
                \o reduce_entries(self, order, 2, format_entry(order[1], self[order[1]]))
                \o Cast]

\* ------------------------------------------------------------------------
\* Map container: Hstore::get and the functions that change the map
\* ------------------------------------------------------------------------

\* Hstore::get.
get(self, k) == IF k \in DOMAIN self THEN Some(self[k]) ELSE None

\* An insert that returns the value it stored instead of the one it replaced.
insert_returns_new(self, k, v) == [map |-> map_insert(self, k, v), ret |-> Some(v)]

\* Hstore::insert: the map after the call and the value returned.
insert(self, k, v) == [map |-> map_insert(self, k, v), ret |-> get(self, k)]

\* Hstore::remove: the map after the call and the value returned.
remove(self, k) ==
  [map |-> [x \in (DOMAIN self) \ {k} |-> self[x]], ret |-> get(self, k)]

\* Hstore::clear: the map after the call.
clear(self) == EmptyMap

\* Hstore::drain: the map after the Drain is consumed or dropped, and the
\* entries it yielded.
drain(self) == [map |-> EmptyMap, ret |-> self]

\* Hstore::retain: f gives, for each entry, whether the predicate keeps it and
\* the value the predicate leaves in it.
retain(self, f) ==
  [x \in {k \in DOMAIN self : f[k].keep} |-> f[x].v]

\* Hstore::values_mut, Hstore::iter_mut and IntoIterator for &mut Hstore: the
\* map after the caller wrote the values f through the iterator.
values_mut(self, f) == [x \in DOMAIN self |-> f[x]]

iter_mut(self, f) == [x \in DOMAIN self |-> f[x]]

\* Hstore::get_mut: the value handed out and the map after the caller wrote v
\* through it; None and the same map when k has no entry.
get_mut(self, k, v) ==
  [map |-> IF k \in DOMAIN self THEN [self EXCEPT ![k] = v] ELSE self,
   ret |-> get(self, k)]

\* Hstore::entry: the maps the caller can make through the Entry of k: leave
\* it, insert into a vacant entry, or write or remove an occupied one.
entry(self, k) ==
  IF k \in DOMAIN self
  THEN {self, remove(self, k).map} \cup {[self EXCEPT ![k] = v] : v \in Texts}
  ELSE {self} \cup {map_insert(self, k, v) : v \in Texts}

\* Extend::extend: the pairs inserted in turn.
RECURSIVE extend(_, _)
extend(self, pairs) ==
  IF pairs = <<>> THEN self
  ELSE extend(map_insert(self, Head(pairs)[1], Head(pairs)[2]), Tail(pairs))

\* The maps a caller assigns through the &mut HashMap of DerefMut::deref_mut:
\* the empty map and the maps of one entry.
Maps ==
  UNION {[D -> Texts] : D \in {S \in SUBSET Texts : Cardinality(S) <= 1}}

\* The pairs a caller hands to Extend::extend.
ExtendPairs ==
  {<<<<97>>, <<98>>>>, <<<<97>>, <<>>>>, <<<<98>>, <<97>>>>, <<<<195, 169>>, <<195, 169>>>>}

\* ------------------------------------------------------------------------
\* Wire buffers handed to the decoder (the hstore binary format)
\* ------------------------------------------------------------------------

\* A well-formed wire entry: a key and a value, or a key and a null value
\* with the negative value length that marks it.
WireEntries ==
  {[key |-> k, value |-> Some(v), value_len |-> Len(v)] : k \in Texts, v \in Texts}
    \cup {[key |-> k, value |-> None, value_len |-> n] : k \in Texts, n \in NegLens}

\* The bytes of a well-formed wire entry.
EntryBytes(e) ==
  to_be_bytes(Len(e.key)) \o e.key \o to_be_bytes(e.value_len)
    \o (IF e.value.some THEN e.value.v ELSE <<>>)

RECURSIVE EntriesBytes(_)
EntriesBytes(es) ==
  IF es = <<>> THEN <<>> ELSE EntryBytes(Head(es)) \o EntriesBytes(Tail(es))

\* The sequences of at most n elements of S.
SeqsUpTo(S, n) == UNION {[1..m -> S] : m \in 0..n}

\* The bytes of a key that is a text, with its length.
KeyBytes(k) == to_be_bytes(Len(k)) \o k

\* What follows the well-formed entries of a buffer: nothing, stray bytes, or
\* the start of one malformed entry.
Defect(kind, raw) == [kind |-> kind, raw |-> raw]

NoDefect == Defect("none", <<>>)

StrayDefects == {Defect("stray", t) : t \in Strays}

EntryDefects ==
  {Defect("neg_key_len", to_be_bytes(n) \o t) : n \in NegLens, t \in {<<>>, <<97>>}}
    \cup {Defect("key_overrun", to_be_bytes(Len(t) + d) \o t) : t \in Texts, d \in {1, 5}}
    \cup {Defect("key_not_utf8", to_be_bytes(Len(s)) \o s \o t) :
            s \in NonTexts, t \in {<<>>, to_be_bytes(0)}}
    \cup {Defect("value_len_short", KeyBytes(k) \o t) :
            k \in {<<>>, <<97>>}, t \in {<<>>, <<0, 0, 0>>}}
    \cup {Defect("value_overrun", KeyBytes(k) \o to_be_bytes(Len(t) + d) \o t) :
            k \in {<<>>, <<97>>}, t \in Texts, d \in {1}}
    \cup {Defect("value_not_utf8", KeyBytes(k) \o to_be_bytes(Len(s)) \o s) :
            k \in {<<>>, <<97>>}, s \in NonTexts}

\* The declared entry counts: negative, and up to one more than the entries.
Counts == NegLens \cup (0..(MaxEntries + 1))

\* A wire buffer as the sender lays it out: the declared count, the
\* well-formed entries, and what follows them. A buffer cut inside the count
\* has fewer than four bytes and nothing else.
Wire(count, entries, defect) == [count |-> count, entries |-> entries, defect |-> defect]

NoWire == Wire(0, <<>>, NoDefect)

\* The bytes of a wire buffer.
WireBytes(w) ==
  IF w.defect.kind = "short_count" THEN w.defect.raw
  ELSE to_be_bytes(w.count) \o EntriesBytes(w.entries) \o w.defect.raw

\* ------------------------------------------------------------------------
\* State
\* ------------------------------------------------------------------------

VARIABLES
  hstore,   \* the Hstore of the application: the map self.0
  out,      \* the bytes to_sql wrote to its Output for hstore; <<>> when none
  sql,      \* the SQL walk_ast pushed to its AstPass for hstore; <<>> when none
  wire,     \* the layout of the buffer the database holds for from_sql
  bytes,    \* the PgValue bytes the last call of from_sql was given
  ret       \* what the last call returned

vars == <<hstore, out, sql, wire, bytes, ret>>

\* What a call other than from_sql returned: Ok(val) or a panic.
Returned(op, tag, val) ==
  [op |-> op, tag |-> tag, val |-> val, err |-> "", entries |-> NoIterator]

\* Hstore::new().
Init ==
  /\ hstore = EmptyMap
  /\ out = <<>>
  /\ sql = <<>>
  /\ wire = NoWire
  /\ bytes = <<>>
  /\ ret = Returned("new", "Ok", None)

\* to_sql and walk_ast borrow the Hstore for as long as their Output and
\* AstPass live ('b), so a call that mutates the map finds both dropped.
Insert(k, v) ==
  /\ k \in DOMAIN hstore \/ Cardinality(DOMAIN hstore) < MaxEntries
  /\ hstore' = insert(hstore, k, v).map
  /\ ret' = Returned("insert", "Ok", insert(hstore, k, v).ret)
  /\ out' = <<>>
  /\ sql' = <<>>
  /\ bytes' = <<>>
  /\ UNCHANGED wire

Remove(k) ==
  /\ hstore' = remove(hstore, k).map
  /\ ret' = Returned("remove", "Ok", remove(hstore, k).ret)
  /\ out' = <<>>
  /\ sql' = <<>>
  /\ bytes' = <<>>
  /\ UNCHANGED wire

Clear ==
  /\ hstore' = clear(hstore)
  /\ ret' = Returned("clear", "Ok", None)
  /\ out' = <<>>
  /\ sql' = <<>>
  /\ bytes' = <<>>
  /\ UNCHANGED wire

Drain ==
  /\ hstore' = drain(hstore).map
  /\ ret' = Returned("drain", "Ok", drain(hstore).ret)
  /\ out' = <<>>
  /\ sql' = <<>>
  /\ bytes' = <<>>
  /\ UNCHANGED wire

\* The predicate keeps the entries of some keys, and leaves their values as
\* they are or writes one text to each.
Retain ==
  \E keep \in SUBSET DOMAIN hstore :
    \E v \in {[k \in keep |-> hstore[k]]} \cup {[k \in keep |-> w] : w \in Texts} :
      LET f == [k \in DOMAIN hstore |->
                  [keep |-> k \in keep, v |-> IF k \in keep THEN v[k] ELSE hstore[k]]]
      IN
      /\ hstore' = retain(hstore, f)
      /\ ret' = Returned("retain", "Ok", None)
      /\ out' = <<>>
      /\ sql' = <<>>
      /\ bytes' = <<>>
      /\ UNCHANGED wire

\* The caller writes one text to every value.
ValuesMut ==
  \E w \in Texts :
    /\ hstore' = values_mut(hstore, [k \in DOMAIN hstore |-> w])
    /\ ret' = Returned("values_mut", "Ok", None)
    /\ out' = <<>>
    /\ sql' = <<>>
    /\ bytes' = <<>>
    /\ UNCHANGED wire

\* The caller writes one text to every value but that of one key.
IterMut ==
  \E k0 \in Texts, w \in Texts :
    /\ hstore' = iter_mut(hstore, [k \in DOMAIN hstore |-> IF k = k0 THEN hstore[k] ELSE w])
    /\ ret' = Returned("iter_mut", "Ok", None)
    /\ out' = <<>>
    /\ sql' = <<>>
    /\ bytes' = <<>>
    /\ UNCHANGED wire

GetMut(k, v) ==
  /\ hstore' = get_mut(hstore, k, v).map
  /\ ret' = Returned("get_mut", "Ok", get_mut(hstore, k, v).ret)
  /\ out' = <<>>
  /\ sql' = <<>>
  /\ bytes' = <<>>
  /\ UNCHANGED wire

Entry(k) ==
  \E map \in entry(hstore, k) :
    /\ Cardinality(DOMAIN map) <= MaxEntries
    /\ hstore' = map
    /\ ret' = Returned("entry", "Ok", None)
    /\ out' = <<>>
    /\ sql' = <<>>
    /\ bytes' = <<>>
    /\ UNCHANGED wire

\* Extend with at most two pairs.
Extend ==
  \E pairs \in SeqsUpTo(ExtendPairs, 2) :
    /\ Cardinality(DOMAIN extend(hstore, pairs)) <= MaxEntries
    /\ hstore' = extend(hstore, pairs)
    /\ ret' = Returned("extend", "Ok", None)
    /\ out' = <<>>
    /\ sql' = <<>>
    /\ bytes' = <<>>
    /\ UNCHANGED wire

\* The caller assigns a map through the &mut HashMap of deref_mut.
DerefMut ==
  \E map \in Maps :
    /\ hstore' = map
    /\ ret' = Returned("deref_mut", "Ok", None)
    /\ out' = <<>>
    /\ sql' = <<>>
    /\ bytes' = <<>>
    /\ UNCHANGED wire

\* Bind the Hstore as a query parameter.
ToSql ==
  \E order \in Orders(DOMAIN hstore) :
    /\ out' = to_sql(hstore, order)
    /\ ret' = Returned("to_sql", "Ok", None)
    /\ bytes' = <<>>
    /\ UNCHANGED <<hstore, sql, wire>>

\* Render the Hstore inline in a query.
WalkAst ==
  \E order \in Orders(DOMAIN hstore) :
    /\ sql' = walk_ast(hstore, order).sql
    /\ ret' = Returned("walk_ast", walk_ast(hstore, order).tag, None)
    /\ bytes' = <<>>
    /\ UNCHANGED <<hstore, out, wire>>

\* Load an Hstore from the bytes b of a row.
FromSql(b) ==
  /\ bytes' = b
  /\ ret' = from_sql(b)
  /\ UNCHANGED <<hstore, out, sql, wire>>

\* The application changes the map through any of the functions that take
\* &mut self, binds or renders it, and reads back the bytes it bound.
Next ==
  \/ \E k \in Texts, v \in Texts : Insert(k, v)
  \/ \E k \in Texts : Remove(k)
  \/ Clear
  \/ Drain
  \/ Retain
  \/ ValuesMut
  \/ IterMut
  \/ \E k \in Texts, v \in Texts : GetMut(k, v)
  \/ \E k \in Texts : Entry(k)
  \/ Extend
  \/ DerefMut
  \/ ToSql
  \/ WalkAst
  \/ out # <<>> /\ FromSql(out)

Spec == Init /\ [][Next]_vars

\* The database holds any buffer of the wire layouts: well-formed entries
\* followed by nothing or by stray bytes, fewer of them followed by the start
\* of a malformed entry, or a buffer cut inside the count.
InitWire ==
  /\ hstore = EmptyMap
  /\ out = <<>>
  /\ sql = <<>>
  /\ \/ \E c \in Counts, es \in SeqsUpTo(WireEntries, MaxEntries),
            d \in {NoDefect} \cup StrayDefects : wire = Wire(c, es, d)
     \/ \E c \in Counts, es \in SeqsUpTo(WireEntries, MaxEntries - 1),
            d \in EntryDefects : wire = Wire(c, es, d)
     \/ \E t \in {<<>>, <<0>>, <<0, 0, 0>>} : wire = Wire(0, <<>>, Defect("short_count", t))
  /\ bytes = <<>>
  /\ ret = Returned("new", "Ok", None)

NextWire == FromSql(WireBytes(wire))

SpecWire == InitWire /\ [][NextWire]_vars

\* ------------------------------------------------------------------------
\* Properties
\* ------------------------------------------------------------------------

\* The last call was from_sql.
Loaded == ret.op = "from_sql"

\* The buffer from_sql was given is well-formed: the declared count is the
\* number of entries and nothing follows them.
WellFormed == wire.defect = NoDefect /\ wire.count = Len(wire.entries)

\* The decoder reaches what follows the well-formed entries as an entry.
DefectParsed == wire.count > Len(wire.entries)

\* The positions of the wire entries of key k that have a value.
ValuedAt(k) ==
  {i \in 1..Len(wire.entries) : wire.entries[i].key = k /\ wire.entries[i].value.some}

\* The wire entries of a map iterated in `order`.
EntriesOf(map, order) ==
  [i \in 1..Len(order) |->
     [key |-> order[i], value |-> Some(map[order[i]]), value_len |-> Len(map[order[i]])]]

\* The texts of a sequence joined by sep.
RECURSIVE Join(_, _)
Join(ts, sep) ==
  IF Len(ts) = 0 THEN <<>>
  ELSE IF Len(ts) = 1 THEN ts[1]
  ELSE ts[1] \o sep \o Join(Tail(ts), sep)

\* C1: decoding the bytes to_sql wrote for a map, in whatever order it
\* iterated the entries, succeeds and returns a map equal to that map.
C1_RoundTrip ==
  (Loaded /\ \E order \in Orders(DOMAIN hstore) : bytes = to_sql(hstore, order))
    => (ret.tag = "Ok" /\ ret.val = hstore)

C1_Witness ==
  /\ Loaded
  /\ Cardinality(DOMAIN hstore) >= 2
  /\ \E k \in DOMAIN hstore : Len(k) = 2 /\ hstore[k] = <<>>
  /\ bytes = out
  /\ ret.val = hstore

\* C2: when a key length or a value length declares more bytes than remain,
\* from_sql returns an error value (it does not panic and returns no map).
C2_TruncatedIsError ==
  (Loaded /\ DefectParsed /\ wire.defect.kind \in {"key_overrun", "value_overrun"})
    => ret.tag = "Err"

\* C3: an entry with a negative value length inserts nothing: the map
\* decoded from a well-formed buffer holds exactly the keys that have an
\* entry with a value, each with the value of one of those entries, and the
\* whole buffer is consumed.
C3_NullDrop ==
  (Loaded /\ WellFormed)
    => /\ ret.tag = "Ok"
       /\ DOMAIN ret.val = {k \in Texts : ValuedAt(k) # {}}
       /\ \A k \in DOMAIN ret.val :
            \E i \in ValuedAt(k) : ret.val[k] = wire.entries[i].value.v
       /\ ret.entries.buf = <<>>

C3_Witness ==
  /\ Loaded
  /\ WellFormed
  /\ Len(wire.entries) = 2
  /\ wire.entries[1] = [key |-> <<97>>, value |-> None, value_len |-> -1]
  /\ wire.entries[2] = [key |-> <<98>>, value |-> Some(<<97>>), value_len |-> 1]
  /\ ret.tag = "Ok"
  /\ ret.val = [k \in {<<98>>} |-> <<97>>]

\* C4: when a well-formed buffer holds several entries with a value for one
\* key, from_sql succeeds and the map holds the value of the last of them.
C4_LastWins ==
  (Loaded /\ WellFormed)
    => /\ ret.tag = "Ok"
       /\ \A k \in Texts :
            ValuedAt(k) # {} =>
              /\ k \in DOMAIN ret.val
              /\ ret.val[k] =
                   wire.entries[CHOOSE i \in ValuedAt(k) : \A j \in ValuedAt(k) : j <= i].value.v

C4_Witness ==
  /\ Loaded
  /\ WellFormed
  /\ Len(wire.entries) = 2
  /\ wire.entries[1] = [key |-> <<97>>, value |-> Some(<<97>>), value_len |-> 1]
  /\ wire.entries[2] = [key |-> <<97>>, value |-> Some(<<98>>), value_len |-> 1]
  /\ ret.tag = "Ok"
  /\ ret.val = [k \in {<<97>>} |-> <<98>>]

\* C5: when bytes are left after the declared count of well-formed entries,
\* from_sql fails with "invalid buffer size"; it returns a map only when the
\* buffer is exhausted exactly after the declared entries.
C5_ExactExhaustion ==
  /\ (/\ Loaded
      /\ wire.defect.kind # "short_count"
      /\ wire.count >= 0
      /\ wire.count <= Len(wire.entries)
      /\ (wire.count < Len(wire.entries) \/ wire.defect.raw # <<>>))
       => (ret.tag = "Err" /\ ret.err = InvalidBufferSize)
  /\ (Loaded /\ ret.tag = "Ok")
       => /\ WellFormed
          /\ ret.entries.remaining = 0
          /\ ret.entries.buf = <<>>

C5_Witness ==
  /\ Loaded
  /\ wire.count = 1
  /\ Len(wire.entries) = 1
  /\ wire.defect = Defect("stray", <<0>>)
  /\ ret.err = InvalidBufferSize

\* C6: when the first four bytes read as a negative count, from_sql fails
\* with "Invalid entry count for hstore" and reads no entry.
C6_NegativeCount ==
  (Loaded /\ wire.defect.kind # "short_count" /\ wire.count < 0)
    => (ret.tag = "Err" /\ ret.err = InvalidEntryCount /\ ret.entries = NoIterator)

C6_Witness ==
  /\ Loaded
  /\ wire.count = -1
  /\ Len(wire.entries) = 1
  /\ SubSeq(bytes, 1, 4) = <<255, 255, 255, 255>>
  /\ ret.err = InvalidEntryCount

\* C7: when the bytes of a key or of a value are all present but are not
\* UTF-8, and the entries before it are well-formed, from_sql fails with a
\* Utf8Error and returns no map.
C7_InvalidUtf8 ==
  (Loaded /\ DefectParsed /\ wire.defect.kind \in {"key_not_utf8", "value_not_utf8"})
    => (ret.tag = "Err" /\ ret.err = InvalidUtf8)

C7_Witness ==
  /\ Loaded
  /\ DefectParsed
  /\ Len(wire.entries) = 1
  /\ wire.defect \in {Defect("key_not_utf8", <<0, 0, 0, 1, 255>>),
                      Defect("value_not_utf8", <<0, 0, 0, 0, 0, 0, 0, 1, 255>>)}
  /\ ret.err = InvalidUtf8

\* C8: when the key length of an entry is negative, and the entries before it
\* are well-formed, from_sql fails with "invalid key length" and the iterator
\* stands right after the length: no key byte is consumed.
C8_NegativeKeyLength ==
  (Loaded /\ DefectParsed /\ wire.defect.kind = "neg_key_len")
    => /\ ret.tag = "Err"
       /\ ret.err = InvalidKeyLength
       /\ ret.entries.buf = Drop(wire.defect.raw, 4)

C8_Witness ==
  /\ Loaded
  /\ DefectParsed
  /\ Len(wire.entries) = 1
  /\ wire.defect = Defect("neg_key_len", <<255, 255, 255, 255, 97>>)
  /\ ret.err = InvalidKeyLength
  /\ ret.entries.buf = <<97>>

\* C9: the bytes to_sql writes are the number of entries as a big-endian
\* i32, then one record per entry, in some order of the entries: the byte
\* length of the key, the key, the byte length of the value, the value; and
\* nothing else.
C9_EncoderLayout ==
  out # <<>>
    => \E order \in Orders(DOMAIN hstore) :
         out = to_be_bytes(Cardinality(DOMAIN hstore))
                 \o EntriesBytes(EntriesOf(hstore, order))

C9_Witness ==
  /\ hstore = [k \in {<<195, 169>>} |-> <<97>>]
  /\ out = <<0, 0, 0, 1, 0, 0, 0, 2, 195, 169, 0, 0, 0, 1, 97>>

\* C10: for a map with entries, walk_ast pushes a quote, the entries as
\* key=>value joined by commas in some order of the entries, and '::hstore;
\* the map {a: b} renders as 'a=>b'::hstore.
C10_LiteralRendering ==
  /\ sql # <<>>
       => \E order \in Orders(DOMAIN hstore) :
            sql = <<39>>
                    \o Join([i \in 1..Len(order) |->
                               order[i] \o <<61, 62>> \o hstore[order[i]]], <<44>>)
                    \o <<39, 58, 58, 104, 115, 116, 111, 114, 101>>
  /\ (ret.op = "walk_ast" /\ hstore # EmptyMap) => (ret.tag = "Ok" /\ sql # <<>>)
  /\ (ret.op = "walk_ast" /\ hstore = [k \in {<<97>>} |-> <<98>>])
       => sql = <<39, 97, 61, 62, 98, 39, 58, 58, 104, 115, 116, 111, 114, 101>>

C10_Witness ==
  /\ ret.op = "walk_ast"
  /\ hstore = [k \in {<<97>>, <<98>>} |-> IF k = <<97>> THEN <<98>> ELSE <<>>]
  /\ sql = <<39, 98, 61, 62, 44, 97, 61, 62, 98, 39, 58, 58, 104, 115, 116, 111, 114, 101>>

\* C11: walk_ast on a map with no entries panics before it pushes any SQL:
\* it returns neither Ok nor an error value, and no text is emitted.
C11_EmptyMapPanics ==
  (ret.op = "walk_ast" /\ hstore = EmptyMap) => (ret.tag = "Panic" /\ sql = <<>>)

C11_Witness ==
  /\ ret.op = "walk_ast"
  /\ hstore = EmptyMap
  /\ ret.tag = "Panic"
  /\ sql = <<>>

\* C12: on any map built by inserts and removes, insert(k, v) returns the
\* value k had before the call (None when it had none), afterwards get(k) is
\* Some(v), and every other key is mapped as before; a second insert of a key
\* returns the first value and leaves the second.
C12_InsertSemantics ==
  [][\A k \in Texts, v \in Texts :
       Insert(k, v) =>
         /\ ret'.op = "insert"
         /\ ret'.val = (IF k \in DOMAIN hstore THEN Some(hstore[k]) ELSE None)
         /\ get(hstore', k) = Some(v)
         /\ DOMAIN hstore' = (DOMAIN hstore) \cup {k}
         /\ \A x \in Texts \ {k} : get(hstore', x) = get(hstore, x)]_vars

C12_Witness ==
  /\ ret.op = "insert"
  /\ ret.val = Some(<<97>>)
  /\ hstore = [k \in {<<>>, <<98>>} |-> IF k = <<98>> THEN <<195, 169>> ELSE <<97>>]

\* C13: a null entry never deletes or overwrites: when a well-formed buffer
\* holds an entry with a value for a key and, later, a null entry for the
\* same key, from_sql succeeds and the map still holds the key with the value
\* of its last entry that has one.
C13_NullKeepsValue ==
  (Loaded /\ WellFormed)
    => \A i, j \in 1..Len(wire.entries) :
         (/\ i < j
          /\ wire.entries[i].value.some
          /\ ~wire.entries[j].value.some
          /\ wire.entries[j].key = wire.entries[i].key
          /\ \A m \in ValuedAt(wire.entries[i].key) : m <= i)
           => /\ ret.tag = "Ok"
              /\ wire.entries[i].key \in DOMAIN ret.val
              /\ ret.val[wire.entries[i].key] = wire.entries[i].value.v

C13_Witness ==
  /\ Loaded
  /\ WellFormed
  /\ Len(wire.entries) = 2
  /\ wire.entries[1] = [key |-> <<97>>, value |-> Some(<<98>>), value_len |-> 1]
  /\ wire.entries[2] = [key |-> <<97>>, value |-> None, value_len |-> -1]
  /\ ret.tag = "Ok"
  /\ ret.val = [k \in {<<97>>} |-> <<98>>]

====
